---- MODULE Spec2Model ----
(***************************************************************************)
(* Model of gphoto_get.py: resolve a share link, fetch the album page,     *)
(* extract (media URL, stable id) pairs from the AF_initDataCallback       *)
(* payloads of its scripts, plan the sync against the output directory     *)
(* and download the remaining items one by one.                            *)
(*                                                                         *)
(* Text is modelled as a sequence of atoms.  An atom is one character      *)
(* (punctuation, a letter of an identifier) or an unbroken run of          *)
(* characters that no operation of the program ever splits (the marker     *)
(* AF_initDataCallback, the host googleusercontent.com, a file suffix).    *)
(* Identifiers that the program slices are spelled one letter per atom.    *)
(***************************************************************************)
EXTENDS Integers, Sequences, FiniteSets, TLC

----------------------------------------------------------------------------
(* Atoms *)

DQ == "\""
SQ == "'"
SP == " "
DOT == "."
MARKER == "AF_initDataCallback"
HOST == "googleusercontent.com"

Letters == {"a", "b", "c", "d", "e", "f", "g", "h", "i", "j", "k", "l", "m",
            "n", "o", "p", "q", "r", "s", "t", "u", "v", "w", "x", "y", "z"}
Digits == {"1", "2", "3"}
Words == {"data", "key", "https", "hash"}

\* [a-zA-Z_] and [a-zA-Z0-9_] of the key-quoting pattern
IdentStart == Letters \cup Words \cup {"_"}
IdentCont == IdentStart \cup Digits
\* \s of the key-quoting pattern, and the whitespace json.loads skips
Whitespace == {SP}

Min(a, b) == IF a < b THEN a ELSE b

----------------------------------------------------------------------------
(* Parsed JSON values: every value is a record of the same shape.          *)
(*   t : "obj" | "list" | "str" | "num" | "null"                           *)
(*   s : the atoms of a string or number                                   *)
(*   l : the elements of a list, or the member values of an object         *)
(*   k : the member keys of an object, aligned with l                      *)

JStr(s) == [t |-> "str", s |-> s, l |-> <<>>, k |-> <<>>]
JNum(s) == [t |-> "num", s |-> s, l |-> <<>>, k |-> <<>>]
JList(l) == [t |-> "list", s |-> <<>>, l |-> l, k |-> <<>>]
JObj(k, l) == [t |-> "obj", s |-> <<>>, l |-> l, k |-> k]
JNull == [t |-> "null", s |-> <<>>, l |-> <<>>, k |-> <<>>]

\* Python truthiness of a parsed value
Truthy(v) ==
    CASE v.t = "str" -> v.s # <<>>
      [] v.t = "num" -> TRUE
      [] v.t = "list" -> v.l # <<>>
      [] v.t = "obj" -> v.l # <<>>
      [] OTHER -> FALSE

----------------------------------------------------------------------------
(* json.loads on a sequence of atoms *)

ParseFail == [ok |-> FALSE, v |-> JNull, pos |-> 0]
ParseOk(v, pos) == [ok |-> TRUE, v |-> v, pos |-> pos]

\* least element of a non-empty set of integers
Least(S) == CHOOSE x \in S : \A y \in S : x <= y

\* index of the first atom at or after i that is not in S, Len(a) + 1 if none
FirstNotIn(a, S, i) ==
    Least({k \in i..Len(a) : a[k] \notin S} \cup {Len(a) + 1})

\* index of the first atom at or after i that is not whitespace
SkipWs(a, i) == IF i > Len(a) THEN i ELSE FirstNotIn(a, Whitespace, i)

\* index of the first atom equal to c at or after i, or 0
IndexFrom(a, c, i) ==
    LET found == {k \in i..Len(a) : a[k] = c}
    IN  IF found = {} THEN 0 ELSE Least(found)

\* last index of the run of atoms of set S that starts at i (i - 1 if none)
RunEnd(a, S, i) == IF i > Len(a) THEN i - 1 ELSE FirstNotIn(a, S, i) - 1

\* dict semantics: a repeated key keeps its first position and takes the
\* last value
RECURSIVE PutMember(_, _, _, _)
PutMember(ks, vs, key, val) ==
    IF ks = <<>> THEN [k |-> <<key>>, l |-> <<val>>]
    ELSE IF Head(ks) = key
         THEN [k |-> ks, l |-> <<val>> \o Tail(vs)]
         ELSE LET r == PutMember(Tail(ks), Tail(vs), key, val)
              IN  [k |-> <<Head(ks)>> \o r.k, l |-> <<Head(vs)>> \o r.l]

ParseString(a, i) ==
    LET j == IndexFrom(a, DQ, i + 1)
    IN  IF j = 0 THEN ParseFail
        ELSE ParseOk(JStr(SubSeq(a, i + 1, j - 1)), j + 1)

RECURSIVE ParseValue(_, _)
RECURSIVE ParseElems(_, _, _)
RECURSIVE ParseMembers(_, _, _, _)

\* a value starting exactly at i
ParseValue(a, i) ==
    IF i > Len(a) THEN ParseFail
    ELSE IF a[i] = "{" THEN
        LET j == SkipWs(a, i + 1)
        IN  IF j <= Len(a) /\ a[j] = "}" THEN ParseOk(JObj(<<>>, <<>>), j + 1)
            ELSE ParseMembers(a, j, <<>>, <<>>)
    ELSE IF a[i] = "[" THEN
        LET j == SkipWs(a, i + 1)
        IN  IF j <= Len(a) /\ a[j] = "]" THEN ParseOk(JList(<<>>), j + 1)
            ELSE ParseElems(a, j, <<>>)
    ELSE IF a[i] = DQ THEN ParseString(a, i)
    ELSE IF a[i] \in Digits THEN
        LET e == RunEnd(a, Digits, i)
        IN  ParseOk(JNum(SubSeq(a, i, e)), e + 1)
    ELSE IF a[i] = "null" THEN ParseOk(JNull, i + 1)
    ELSE ParseFail

\* the elements of a list, the next one starting at i
ParseElems(a, i, acc) ==
    LET r == ParseValue(a, i)
    IN  IF ~r.ok THEN ParseFail
        ELSE LET j == SkipWs(a, r.pos)
             IN  IF j > Len(a) THEN ParseFail
                 ELSE IF a[j] = ","
                      THEN ParseElems(a, SkipWs(a, j + 1), Append(acc, r.v))
                 ELSE IF a[j] = "]"
                      THEN ParseOk(JList(Append(acc, r.v)), j + 1)
                 ELSE ParseFail

\* the members of an object, the next key starting at i
ParseMembers(a, i, ks, vs) ==
    IF i > Len(a) \/ a[i] # DQ THEN ParseFail
    ELSE LET key == ParseString(a, i)
         IN  IF ~key.ok THEN ParseFail
             ELSE LET c == SkipWs(a, key.pos)
                  IN  IF c > Len(a) \/ a[c] # ":" THEN ParseFail
                      ELSE LET r == ParseValue(a, SkipWs(a, c + 1))
                           IN  IF ~r.ok THEN ParseFail
                               ELSE LET j == SkipWs(a, r.pos)
                                        m == PutMember(ks, vs, key.v.s, r.v)
                                    IN  IF j > Len(a) THEN ParseFail
                                        ELSE IF a[j] = ","
                                             THEN ParseMembers(a, SkipWs(a, j + 1), m.k, m.l)
                                        ELSE IF a[j] = "}"
                                             THEN ParseOk(JObj(m.k, m.l), j + 1)
                                        ELSE ParseFail

\* json.loads: ok = FALSE stands for json.JSONDecodeError
json_loads(a) ==
    LET r == ParseValue(a, SkipWs(a, 1))
    IN  IF ~r.ok THEN ParseFail
        ELSE IF SkipWs(a, r.pos) <= Len(a) THEN ParseFail
        ELSE r

----------------------------------------------------------------------------
(* Embedded-data extraction, one script block *)

\* "googleusercontent.com" in url, "AF_initDataCallback" in script_content
Contains(text, atom) == \E i \in 1..Len(text) : text[i] = atom

\* re.search(r"AF_initDataCallback\((.*?)\);?", ..., re.DOTALL): the start of
\* the leftmost marker that is followed by "(" and, later, by ")"; 0 if none
re_search(a) ==
    LET starts == {i \in 1..(Len(a) - 1) :
                      /\ a[i] = MARKER
                      /\ a[i + 1] = "("
                      /\ IndexFrom(a, ")", i + 2) # 0}
    IN  IF starts = {} THEN 0 ELSE Least(starts)

\* match.group(1): the shortest text up to the first ")"
group1(a, m) == SubSeq(a, m + 2, IndexFrom(a, ")", m + 2) - 1)

\* full_json_arg_str.replace("'", '"')
ReplaceQuotes(a) == [i \in 1..Len(a) |-> IF a[i] = SQ THEN DQ ELSE a[i]]

\* re.sub(r"([{,])\s*([a-zA-Z_][a-zA-Z0-9_]*)\s*:", r'\1"\2":', ...):
\* left to right, each match replaced, the scan resuming after the match
\* whether the pattern matches starting at i
KeyMatchAt(a, i) ==
    LET j == SkipWs(a, i + 1)
        c == SkipWs(a, RunEnd(a, IdentCont, j) + 1)
    IN  /\ a[i] \in {"{", ","}
        /\ j <= Len(a)
        /\ a[j] \in IdentStart
        /\ c <= Len(a)
        /\ a[c] = ":"

RECURSIVE QuoteKeysFrom(_, _)
QuoteKeysFrom(a, i) ==
    LET starts == {k \in i..Len(a) : KeyMatchAt(a, k)}
    IN  IF starts = {} THEN SubSeq(a, i, Len(a))
        ELSE LET m == Least(starts)
                 j == SkipWs(a, m + 1)
                 e == RunEnd(a, IdentCont, j)
                 c == SkipWs(a, e + 1)
             IN  SubSeq(a, i, m) \o <<DQ>> \o SubSeq(a, j, e) \o <<DQ, ":">>
                     \o QuoteKeysFrom(a, c + 1)

QuoteKeys(a) == QuoteKeysFrom(a, 1)

\* variant: the bare keys are left unquoted
cleaned_json_str_NoKeys(a) == ReplaceQuotes(a)

cleaned_json_str(a) == QuoteKeys(ReplaceQuotes(a))

\* dict.get(key): the member's value, None when absent
RECURSIVE GetFrom(_, _, _)
GetFrom(ks, vs, key) ==
    IF ks = <<>> THEN JNull
    ELSE IF Head(ks) = key THEN Head(vs)
    ELSE GetFrom(Tail(ks), Tail(vs), key)

dict_get(obj, key) == GetFrom(obj.k, obj.l, key)

\* the condition on data_array
DataArrayOk(d) ==
    /\ Truthy(d)
    /\ d.t = "list"
    /\ Len(d.l) > 1
    /\ d.l[2].t = "list"

\* variant: the host of the URL is not checked
PhotoEntryOk_AnyHost(e) ==
    /\ e.t = "list"
    /\ Len(e.l) > 1
    /\ e.l[2].t = "list"
    /\ Len(e.l[2].l) > 0
    /\ e.l[2].l[1].t = "str"

\* the condition on one photo_entry
PhotoEntryOk(e) ==
    /\ e.t = "list"
    /\ Len(e.l) > 1
    /\ e.l[2].t = "list"
    /\ Len(e.l[2].l) > 0
    /\ e.l[2].l[1].t = "str"
    /\ Contains(e.l[2].l[1].s, HOST)

\* variant: the slice starts one character early
CleanId_OffByOne(raw_id) ==
    IF raw_id.t = "str" /\ Len(raw_id.s) >= 6
    THEN JStr(SubSeq(raw_id.s, 6, Min(13, Len(raw_id.s))))
    ELSE raw_id

\* clean_id: strip the first 6 characters, then take the next 8
CleanId(raw_id) ==
    IF raw_id.t = "str" /\ Len(raw_id.s) >= 6
    THEN JStr(SubSeq(raw_id.s, 7, Min(14, Len(raw_id.s))))
    ELSE raw_id

\* the (photo_url, clean_id) pair appended for an accepted photo_entry
EntryOf(e) == [url |-> e.l[2].l[1].s, pid |-> CleanId(e.l[1])]

\* the inner loop over photos_data
RECURSIVE EntriesOf(_)
EntriesOf(photos) ==
    IF photos = <<>> THEN <<>>
    ELSE IF PhotoEntryOk(Head(photos))
         THEN <<EntryOf(Head(photos))>> \o EntriesOf(Tail(photos))
         ELSE EntriesOf(Tail(photos))

\* One iteration of the loop over script_tags.  raised = TRUE: an exception
\* other than json.JSONDecodeError left the try block (.get on a value that
\* is not a dict raises AttributeError).
ScriptResult(script) ==
    LET m == re_search(script)
        parsed == json_loads(cleaned_json_str(group1(script, m)))
        data_array == dict_get(parsed.v, <<"data">>)
        none == [raised |-> FALSE, entries |-> <<>>]
    IN  IF ~(script # <<>> /\ Contains(script, MARKER)) THEN none
        ELSE IF m = 0 THEN none
        ELSE IF ~parsed.ok THEN none
        ELSE IF parsed.v.t # "obj" THEN [raised |-> TRUE, entries |-> <<>>]
        ELSE IF ~DataArrayOk(data_array) THEN none
        ELSE [raised |-> FALSE, entries |-> EntriesOf(data_array.l[2].l)]

----------------------------------------------------------------------------
(* File names, the output directory and the downloader's pure parts *)

RECURSIVE Repr(_)
RECURSIVE ReprList(_)
RECURSIVE ReprMembers(_, _)

\* repr() of a parsed value
Repr(v) ==
    CASE v.t = "str" -> <<SQ>> \o v.s \o <<SQ>>
      [] v.t = "num" -> v.s
      [] v.t = "list" -> <<"[">> \o ReprList(v.l) \o <<"]">>
      [] v.t = "obj" -> <<"{">> \o ReprMembers(v.k, v.l) \o <<"}">>
      [] OTHER -> <<"None">>

ReprList(l) ==
    IF l = <<>> THEN <<>>
    ELSE IF Len(l) = 1 THEN Repr(l[1])
    ELSE Repr(l[1]) \o <<",", SP>> \o ReprList(Tail(l))

ReprMembers(ks, vs) ==
    IF ks = <<>> THEN <<>>
    ELSE LET m == <<SQ>> \o Head(ks) \o <<SQ, ":", SP>> \o Repr(Head(vs))
         IN  IF Len(ks) = 1 THEN m
             ELSE m \o <<",", SP>> \o ReprMembers(Tail(ks), Tail(vs))

\* str() of a parsed value, as the f-string formats base_name
Str(v) == IF v.t = "str" THEN v.s ELSE Repr(v)

\* the declared content types the model's server answers with
ContentTypes == {"image/png", "image/jpeg; q=1", "application/x-foo"}

\* mimetypes.guess_extension: the suffix after the dot, "" for None
guess_extension(content_type) ==
    CASE content_type = "image/png" -> "png"
      [] content_type = "image/jpeg" -> "jpg"
      [] content_type = "video/mp4" -> "mp4"
      [] OTHER -> ""

\* needle in content_type, for the content types above
InContentType(needle, content_type) ==
    \/ needle = content_type
    \/ needle = "image/jpeg" /\ content_type = "image/jpeg; q=1"

\* the extension chosen by download_photo, without its dot
Extension(content_type) ==
    IF guess_extension(content_type) # "" THEN guess_extension(content_type)
    ELSE IF InContentType("image/jpeg", content_type) THEN "jpg"
    ELSE IF InContentType("image/png", content_type) THEN "png"
    ELSE IF InContentType("video/mp4", content_type) THEN "mp4"
    ELSE "bin"

\* variant: the name does not depend on the photo id
Filename_NoId(photo_id, content_type) ==
    <<"p", "h", "o", "t", "o", DOT, Extension(content_type)>>

\* filename = f"{base_name}{extension}"
Filename(photo_id, content_type) ==
    Str(photo_id) \o <<DOT, Extension(content_type)>>

\* index of the last atom equal to c, or 0
LastIndex(a, c) ==
    LET found == {k \in 1..Len(a) : a[k] = c}
    IN  IF found = {} THEN 0 ELSE CHOOSE x \in found : \A y \in found : y <= x

\* variant: the extension is not removed
splitext_stem_Whole(name) == name

\* os.path.splitext(name)[0]: the name up to its last dot, unless only dots
\* precede that dot
splitext_stem(name) ==
    LET d == LastIndex(name, DOT)
    IN  IF d > 0 /\ \E i \in 1..(d - 1) : name[i] # DOT
        THEN SubSeq(name, 1, d - 1)
        ELSE name

\* existing_file.startswith(base_name), for a str base_name
StartsWith(name, prefix) ==
    /\ Len(prefix) <= Len(name)
    /\ SubSeq(name, 1, Len(prefix)) = prefix

\* variant: the strict stem check is missing
check_file_exists_Prefix(dir, base_name) ==
    IF DOMAIN dir = {} THEN "none"
    ELSE IF base_name.t # "str" THEN "raised"
    ELSE IF \E n \in DOMAIN dir :
                /\ StartsWith(n, base_name.s)
                /\ dir[n].kind = "file"
         THEN "found"
    ELSE "none"

\* check_file_exists on an existing directory with listing dir (a function
\* from names to entries): "raised" when startswith gets a base_name that is
\* not a str, else whether some regular file has exactly the stem base_name
check_file_exists(dir, base_name) ==
    IF DOMAIN dir = {} THEN "none"
    ELSE IF base_name.t # "str" THEN "raised"
    ELSE IF \E n \in DOMAIN dir :
                /\ StartsWith(n, base_name.s)
                /\ dir[n].kind = "file"
                /\ splitext_stem(n) = base_name.s
         THEN "found"
    ELSE "none"

\* the sync loop over photo_entries_found
RECURSIVE PlanSync(_, _, _)
PlanSync(dir, entries, acc) ==
    IF entries = <<>> THEN acc
    ELSE LET existing == check_file_exists(dir, Head(entries).pid)
         IN  IF existing = "raised"
             THEN [acc EXCEPT !.raised = TRUE]
             ELSE IF existing = "found"
             THEN PlanSync(dir, Tail(entries),
                           [acc EXCEPT !.skipped_count = @ + 1])
             ELSE PlanSync(dir, Tail(entries),
                           [acc EXCEPT !.to_download = Append(@, Head(entries))])

----------------------------------------------------------------------------
(* The album pages the model's server can serve.  A page body is the       *)
(* sequence of its elements; doc.query("script") keeps the script ones.    *)

Quoted(text) == <<SQ>> \o text \o <<SQ>>

Url(path) == <<"https", ":", "//lh3.", HOST, path>>
OtherUrl(path) == <<"https", ":", "//example.org", path>>

Id1 == <<"a", "b", "c", "d", "e", "f", "g", "h", "i", "j", "k", "l", "m", "n">>
Id2 == <<"a", "b", "c", "d", "e", "f", "o", "p", "q", "r", "s", "t", "u", "v", "w", "x">>
\* same characters 6..13 as Id1
Id3 == <<"z", "z", "z", "z", "z", "z", "g", "h", "i", "j", "k", "l", "m", "n", "y">>
Id4 == <<"a", "b", "c", "d", "e", "f">>
Id5 == <<"a", "b", "c">>
Id6 == <<"a", "b", "c", "d", "e", "f", "g", "h", "i">>

\* [id, [url]] as it is written in the page
RecordText(idText, urlText) ==
    <<"[">> \o idText \o <<",", SP, "[">> \o urlText \o <<"]", "]">>

RECURSIVE JoinTexts(_)
JoinTexts(texts) ==
    IF texts = <<>> THEN <<>>
    ELSE IF Len(texts) = 1 THEN texts[1]
    ELSE texts[1] \o <<",", SP>> \o JoinTexts(Tail(texts))

\* {data: ['x', [ records ]]}
PayloadText(records) ==
    <<"{", "data", ":", SP, "[", SQ, "x", SQ, ",", SP, "[", SP>>
        \o JoinTexts(records) \o <<SP, "]", "]", "}">>

Script(payload) == [tag |-> "script", text |-> <<MARKER, "(">> \o payload \o <<")", ";">>]
Para(text) == [tag |-> "p", text |-> text]

RecA == RecordText(Quoted(Id1), Quoted(Url("/abc")))
RecB == RecordText(Quoted(Id2), Quoted(Url("/def")))
RecDup == RecordText(Quoted(Id3), Quoted(Url("/dup")))
RecOther == RecordText(Quoted(Id2), Quoted(OtherUrl("/x")))
RecShort == RecordText(Quoted(Id4), Quoted(Url("/six")))
RecTiny == RecordText(Quoted(Id5), Quoted(Url("/three")))
RecNine == RecordText(Quoted(Id6), Quoted(Url("/nine")))
RecWrapped == RecordText(<<"[">> \o Quoted(Id1) \o <<"]">>, Quoted(Url("/abc")))
RecNoUrl == RecordText(Quoted(Id2), <<>>)
RecFlat == Quoted(Id2)

\* the page of the end-to-end scenario
ScenarioPage == <<Script(PayloadText(<<RecWrapped>>))>>

Pages ==
    { <<>>,
      <<Para(<<"x">>)>>,
      <<[tag |-> "script", text |-> <<"x", "(", "1", ")", ";">>]>>,
      ScenarioPage,
      <<Script(PayloadText(<<RecA>>))>>,
      <<Script(PayloadText(<<RecA, RecOther, RecB>>))>>,
      <<Script(PayloadText(<<RecNoUrl, RecB, RecFlat>>)),
        Para(<<"x">>),
        Script(<<"{", "key", ":", SP, SQ, "x", SQ, ",", SP, "hash", ":", SP, SQ, "1", SQ, ",",
                 "data", ":", "[", "1", ",", "[">> \o RecA \o <<"]", "]", "}">>)>>,
      <<Script(<<"[", SQ, "x", SQ, "]">>), Script(PayloadText(<<RecA>>))>>,
      <<Script(<<SQ, "x", SQ>>), Script(PayloadText(<<RecA>>))>>,
      <<Script(<<"{", "data", ":", SP, "[", SQ, "i", "t", SQ, "s", SQ, ",", "[", "]", "]", "}">>),
        Script(PayloadText(<<RecA>>))>>,
      <<Script(<<"{", "data", ":", SP, "{", "key", ":", "1", "}", "}">>),
        Script(<<"{", "key", ":", "1", "}">>),
        Script(<<"{", "data", ":", "[", "1", ",", "2", "]", "}">>),
        [tag |-> "script", text |-> <<MARKER, SP, "(", "1", ")">>],
        Script(PayloadText(<<RecB>>))>>,
      <<Script(PayloadText(<<RecA, RecDup>>))>>,
      <<Script(PayloadText(<<RecShort, RecTiny>>))>>,
      <<Script(PayloadText(<<RecNine, RecA>>))>> }

\* doc.query("script"), each with script.to_text()
RECURSIVE query_script(_)
query_script(body) ==
    IF body = <<>> THEN <<>>
    ELSE IF Head(body).tag = "script"
         THEN <<Head(body).text>> \o query_script(Tail(body))
         ELSE query_script(Tail(body))

----------------------------------------------------------------------------
(* State *)

VARIABLES
    pc,                   \* position of main: "resolve", "fetch", "parse",
                          \* "download", "exited" (and "derive", "derived")
    exit_code,            \* process exit status, -1 while running
    raised,               \* where an exception left main uncaught, or "none"
    album,                \* the page body the server serves for the album
    sync,                 \* args.sync
    full_url,             \* "none" while unresolved or when resolve_url returned None
    fetch_status,         \* outcome of the page GET
    script_tags,          \* text of each script of the fetched page
    script_idx,           \* next script of the parse loop
    photo_entries_found,
    dir_exists,           \* whether args.output_dir exists
    made_dir,             \* whether this run called os.makedirs
    fs,                   \* listing of args.output_dir: name -> entry
    to_download,
    skipped_count,
    success_count,
    fail_count,
    dl_idx,               \* next item of the download loop
    results,              \* outcome of each download_photo call, in call order
    console,              \* the messages printed that mark an outcome
    run,                  \* number of the current invocation
    history,              \* the Run Result of each finished invocation
    raw_id,               \* the locals of the stable-id derivation
    clean_id

vars == <<pc, exit_code, raised, album, sync, full_url, fetch_status,
          script_tags, script_idx, photo_entries_found, dir_exists, made_dir,
          fs, to_download, skipped_count, success_count, fail_count, dl_idx,
          results, console, run, history, raw_id, clean_id>>

netVars == <<full_url, fetch_status>>
parseVars == <<script_tags, script_idx, photo_entries_found>>
diskVars == <<dir_exists, made_dir, fs>>
planVars == <<to_download, skipped_count>>
loopVars == <<success_count, fail_count, dl_idx, results>>
envVars == <<album, sync, run, history, raw_id, clean_id>>

\* bounds of the model
MaxRuns == 2
MaxIdLen == 14

Sid1 == <<"g", "h", "i", "j", "k", "l", "m", "n">>
Sid2 == <<"o", "p", "q", "r", "s", "t", "u", "v">>

OldFile == [kind |-> "file", src |-> <<>>, whole |-> TRUE]
OldDir == [kind |-> "dir", src |-> <<>>, whole |-> TRUE]
NoFiles == [n \in {} |-> OldFile]

\* the states of the output directory a run can start from
InitDirs ==
    { [exists |-> FALSE, fs |-> NoFiles],
      [exists |-> TRUE, fs |-> NoFiles],
      [exists |-> TRUE, fs |-> [n \in {Sid1 \o <<DOT, "png">>} |-> OldFile]],
      [exists |-> TRUE, fs |-> [n \in {Sid1 \o <<"x", DOT, "png">>} |-> OldFile]],
      [exists |-> TRUE, fs |-> [n \in {Sid1 \o <<DOT, "png">>} |-> OldDir]],
      [exists |-> TRUE, fs |-> [n \in {Sid1, Sid2 \o <<DOT, "jpg">>} |-> OldFile]],
      [exists |-> TRUE, fs |-> [n \in {<<DOT, "png">>, <<"a", "b", "c", DOT>>} |-> OldFile]] }

\* the state of one invocation before its first step
RunStart ==
    /\ pc = "resolve"
    /\ exit_code = -1
    /\ raised = "none"
    /\ full_url = "none"
    /\ fetch_status = "none"
    /\ script_tags = <<>>
    /\ script_idx = 1
    /\ photo_entries_found = <<>>
    /\ made_dir = FALSE
    /\ to_download = <<>>
    /\ skipped_count = 0
    /\ success_count = 0
    /\ fail_count = 0
    /\ dl_idx = 1
    /\ results = <<>>
    /\ console = <<>>

Init ==
    /\ RunStart
    /\ album \in Pages
    /\ sync \in BOOLEAN
    /\ \E d \in InitDirs : dir_exists = d.exists /\ fs = d.fs
    /\ run = 1
    /\ history = <<>>
    /\ raw_id = JNull
    /\ clean_id = JNull

----------------------------------------------------------------------------
(* Actions of main *)

\* sys.exit(code)
Exit(code) ==
    /\ pc' = "exited"
    /\ exit_code' = code
    /\ raised' = raised

\* an exception propagates out of main: traceback, exit status 1
Uncaught(where) ==
    /\ pc' = "exited"
    /\ exit_code' = 1
    /\ raised' = where

\* 1. resolve_url and the check of its result
Resolve ==
    /\ pc = "resolve"
    /\ \E head \in {"200", "404", "error"}, get \in {"ok", "error"} :
          IF head = "error" \/ (head # "200" /\ get = "error")
          THEN /\ full_url' = "none"
               /\ console' = Append(console, "Error resolving URL")
               /\ Exit(1)
          ELSE /\ full_url' = "final_url"
               /\ console' = console
               /\ pc' = "fetch"
               /\ UNCHANGED <<exit_code, raised>>
    /\ UNCHANGED <<fetch_status, parseVars, diskVars, planVars, loopVars, envVars>>

\* 2. fetch_page_content, the check of its result, and the script query
Fetch ==
    /\ pc = "fetch"
    /\ \E outcome \in {"ok", "http_error", "transport_error"} :
          /\ fetch_status' = outcome
          /\ IF outcome # "ok"
             THEN /\ console' = Append(console, "Error fetching page content")
                  /\ script_tags' = script_tags
                  /\ Exit(1)
             ELSE IF album = <<>>
             THEN /\ console' = console
                  /\ script_tags' = script_tags
                  /\ Exit(1)
             ELSE /\ console' = console
                  /\ script_tags' = query_script(album)
                  /\ pc' = "parse"
                  /\ UNCHANGED <<exit_code, raised>>
    /\ UNCHANGED <<full_url, script_idx, photo_entries_found, diskVars,
                   planVars, loopVars, envVars>>

\* one iteration of the loop over script_tags
ParseScript ==
    /\ pc = "parse"
    /\ script_idx <= Len(script_tags)
    /\ LET r == ScriptResult(script_tags[script_idx])
       IN  IF r.raised
           THEN /\ Uncaught("parse")
                /\ UNCHANGED <<script_idx, photo_entries_found>>
           ELSE /\ photo_entries_found' = photo_entries_found \o r.entries
                /\ script_idx' = script_idx + 1
                /\ UNCHANGED <<pc, exit_code, raised>>
    /\ UNCHANGED <<netVars, script_tags, diskVars, planVars, loopVars,
                   console, envVars>>

\* the total check, 3. the sync analysis, and the check of to_download
AnalyzeSync ==
    /\ pc = "parse"
    /\ script_idx > Len(script_tags)
    /\ IF Len(photo_entries_found) = 0
       THEN /\ console' = Append(console, "No photos found in album.")
            /\ Exit(0)
            /\ UNCHANGED <<diskVars, planVars>>
       ELSE LET plan == IF sync
                        THEN PlanSync(fs, photo_entries_found,
                                      [raised |-> FALSE, to_download |-> <<>>,
                                       skipped_count |-> 0])
                        ELSE [raised |-> FALSE,
                              to_download |-> photo_entries_found,
                              skipped_count |-> 0]
            IN  /\ dir_exists' = TRUE
                /\ made_dir' = ~dir_exists
                /\ fs' = fs
                /\ to_download' = plan.to_download
                /\ skipped_count' = plan.skipped_count
                /\ IF plan.raised
                   THEN /\ console' = Append(console, "Found")
                        /\ Uncaught("sync")
                   ELSE IF plan.to_download = <<>>
                   THEN /\ console' = console \o <<"Found", "Local", "All photos up to date!">>
                        /\ Exit(0)
                   ELSE /\ console' = console \o <<"Found", "Local">>
                        /\ pc' = "download"
                        /\ UNCHANGED <<exit_code, raised>>
    /\ UNCHANGED <<netVars, parseVars, loopVars, envVars>>

Write(name, url, whole) ==
    [n \in DOMAIN fs \cup {name} |->
        IF n = name THEN [kind |-> "file", src |-> url, whole |-> whole]
        ELSE fs[n]]

\* 4. one iteration of the download loop: download_photo and the tally
DownloadStep ==
    /\ pc = "download"
    /\ dl_idx <= Len(to_download)
    /\ LET item == to_download[dl_idx]
       IN  \E outcome \in {"ok", "http_error", "no_content_type", "open_error",
                           "stream_error", "write_error"},
              content_type \in ContentTypes :
             LET name == Filename(item.pid, content_type)
                 is_dir == name \in DOMAIN fs /\ fs[name].kind = "dir"
                 opened == outcome \in {"ok", "stream_error", "write_error"}
                 result == IF outcome = "ok" THEN "ok"
                           ELSE IF outcome \in {"http_error", "stream_error"}
                                THEN "fail"
                                ELSE "raised"
             IN  /\ opened => ~is_dir
                 /\ fs' = IF opened THEN Write(name, item.url, outcome = "ok")
                          ELSE fs
                 /\ results' = Append(results, [idx |-> dl_idx, r |-> result,
                                                cause |-> outcome])
                 /\ IF result = "raised"
                    THEN /\ Uncaught("download")
                         /\ UNCHANGED <<success_count, fail_count, dl_idx, console>>
                    ELSE /\ success_count' = IF result = "ok"
                                             THEN success_count + 1
                                             ELSE success_count
                         /\ fail_count' = IF result = "ok" THEN fail_count
                                          ELSE fail_count + 1
                         /\ console' = IF result = "ok" THEN console
                                       ELSE Append(console, "Error downloading")
                         /\ dl_idx' = dl_idx + 1
                         /\ UNCHANGED <<pc, exit_code, raised>>
    /\ UNCHANGED <<netVars, parseVars, dir_exists, made_dir, planVars, envVars>>

\* 5. the summary; main returns
Summary ==
    /\ pc = "download"
    /\ dl_idx > Len(to_download)
    /\ console' = Append(console, "Summary")
    /\ Exit(0)
    /\ UNCHANGED <<netVars, parseVars, diskVars, planVars, loopVars, envVars>>

Next ==
    \/ Resolve
    \/ Fetch
    \/ ParseScript
    \/ AnalyzeSync
    \/ DownloadStep
    \/ Summary

Spec == Init /\ [][Next]_vars

----------------------------------------------------------------------------
(* Two invocations against the same album and output directory *)

RunResult ==
    [total |-> Len(photo_entries_found),
     skipped |-> skipped_count,
     success |-> success_count,
     fail |-> fail_count,
     exit_code |-> exit_code,
     raised |-> raised,
     entries |-> photo_entries_found]

\* the program is started again with the same arguments
Rerun ==
    /\ pc = "exited"
    /\ run < MaxRuns
    /\ history' = Append(history, RunResult)
    /\ run' = run + 1
    /\ pc' = "resolve"
    /\ exit_code' = -1
    /\ raised' = "none"
    /\ full_url' = "none"
    /\ fetch_status' = "none"
    /\ script_tags' = <<>>
    /\ script_idx' = 1
    /\ photo_entries_found' = <<>>
    /\ made_dir' = FALSE
    /\ to_download' = <<>>
    /\ skipped_count' = 0
    /\ success_count' = 0
    /\ fail_count' = 0
    /\ dl_idx' = 1
    /\ results' = <<>>
    /\ console' = <<>>
    /\ UNCHANGED <<album, sync, dir_exists, fs, raw_id, clean_id>>

InitTwice == Init /\ sync = TRUE

NextTwice ==
    \/ Resolve
    \/ Fetch
    \/ ParseScript
    \/ AnalyzeSync
    \/ DownloadStep
    \/ Summary
    \/ Rerun

SpecTwice == InitTwice /\ [][NextTwice]_vars

----------------------------------------------------------------------------
(* The stable-id derivation on its own, over every identifier up to        *)
(* MaxIdLen characters                                                     *)

IdAlphabet == {"a", "b"}

RawIds ==
    {JStr(s) : s \in UNION {[1..n -> IdAlphabet] : n \in 0..MaxIdLen}}
        \cup {JNull, JNum(<<"1">>), JList(<<JStr(Id1)>>)}

InitId ==
    /\ pc = "derive"
    /\ raw_id \in RawIds
    /\ clean_id = JNull
    /\ exit_code = -1
    /\ raised = "none"
    /\ album = <<>>
    /\ sync = FALSE
    /\ full_url = "none"
    /\ fetch_status = "none"
    /\ script_tags = <<>>
    /\ script_idx = 1
    /\ photo_entries_found = <<>>
    /\ dir_exists = TRUE
    /\ made_dir = FALSE
    /\ fs = NoFiles
    /\ to_download = <<>>
    /\ skipped_count = 0
    /\ success_count = 0
    /\ fail_count = 0
    /\ dl_idx = 1
    /\ results = <<>>
    /\ console = <<>>
    /\ run = 1
    /\ history = <<>>

\* clean_id = raw_id, then the conditional slice
DeriveId ==
    /\ pc = "derive"
    /\ clean_id' = CleanId(raw_id)
    /\ pc' = "derived"
    /\ UNCHANGED <<exit_code, raised, album, sync, netVars, parseVars,
                   diskVars, planVars, loopVars, console, run, history, raw_id>>

NextId == DeriveId

SpecId == InitId /\ [][NextId]_vars

----------------------------------------------------------------------------
(* Vocabulary of the properties *)

Printed(msg) == \E i \in 1..Len(console) : console[i] = msg

\* the sync analysis of this run has returned and no download has started
Planned == Printed("Local") /\ results = <<>>

FetchFailed == fetch_status \in {"http_error", "transport_error"}
ResolveFailed == pc # "resolve" /\ pc # "derive" /\ pc # "derived" /\ full_url = "none"

\* data[1] of a script whose payload is well formed, <<>> for any other script
PhotoRecords(script) ==
    LET m == re_search(script)
        parsed == json_loads(cleaned_json_str(group1(script, m)))
        d == dict_get(parsed.v, <<"data">>)
    IN  IF /\ Contains(script, MARKER)
           /\ m # 0
           /\ parsed.ok
           /\ parsed.v.t = "obj"
           /\ d.t = "list"
           /\ Len(d.l) >= 2
           /\ d.l[2].t = "list"
        THEN d.l[2].l
        ELSE <<>>

\* a raw record that is a photo record
ValidRecord(rec) ==
    /\ rec.t = "list"
    /\ Len(rec.l) >= 2
    /\ rec.l[2].t = "list"
    /\ rec.l[2].l # <<>>
    /\ rec.l[2].l[1].t = "str"
    /\ \E i \in DOMAIN rec.l[2].l[1].s : rec.l[2].l[1].s[i] = HOST

\* the stable id of a raw identifier, character by character
StableIdOf(id) ==
    IF id.t = "str" /\ Len(id.s) >= 6
    THEN JStr([i \in 1..Min(8, Len(id.s) - 6) |-> id.s[i + 6]])
    ELSE id

\* one Photo Entry per photo record, in order
BlockEntries(script) ==
    LET valid == SelectSeq(PhotoRecords(script), ValidRecord)
    IN  [i \in 1..Len(valid) |->
            [url |-> valid[i].l[2].l[1].s, pid |-> StableIdOf(valid[i].l[1])]]

RECURSIVE ExpectedEntries(_)
ExpectedEntries(scripts) ==
    IF scripts = <<>> THEN <<>>
    ELSE BlockEntries(Head(scripts)) \o ExpectedEntries(Tail(scripts))

\* name is stem followed by nothing or by one extension (a dot and no further
\* dot), where a name made of leading dots only has no extension
NamedBy(name, stem) ==
    /\ Len(stem) <= Len(name)
    /\ \A i \in 1..Len(stem) : name[i] = stem[i]
    /\ LET rest == SubSeq(name, Len(stem) + 1, Len(name))
       IN  IF rest = <<>>
           THEN \A d \in 1..Len(name) :
                    name[d] = DOT => \A i \in 1..d : name[i] = DOT
           ELSE /\ rest[1] = DOT
                /\ \A i \in 2..Len(rest) : rest[i] # DOT
                /\ \E i \in 1..Len(stem) : stem[i] # DOT

\* output_dir directly contains a file whose name without extension is the id
HasLocalFile(pid) ==
    \E n \in DOMAIN fs : fs[n].kind = "file" /\ NamedBy(n, Str(pid))

FileSuffixes == {"png", "jpg", "mp4", "bin"}

\* the files of an item: those named <stable_id><ext> and those on disk that
\* a download of the item wrote
FilesOf(item) ==
    {Str(item.pid) \o <<DOT, x>> : x \in FileSuffixes}
        \cup {n \in DOMAIN fs : fs[n].src = item.url}

\* a file on disk is left as it was
SameFile(n) == n \in DOMAIN fs => (n \in DOMAIN fs' /\ fs'[n] = fs[n])

\* this step is a download_photo call that failed
FailedDownload ==
    /\ pc = "download"
    /\ Len(results') = Len(results) + 1
    /\ results'[Len(results')].r # "ok"

----------------------------------------------------------------------------
(* Properties *)

\* C1: a download that fails with a transport error or an I/O error is a
\* failure of that item only: the failure tally counts it, every item of
\* to_download is attempted once in order, and the run prints the summary and
\* exits 0.
C1_FailureIsPerItem ==
    ( /\ pc = "exited"
      /\ results # <<>>
      /\ \A i \in 1..Len(results) :
            results[i].cause \in {"ok", "http_error", "stream_error",
                                  "write_error"} )
    => /\ exit_code = 0
       /\ Printed("Summary")
       /\ Len(results) = Len(to_download)
       /\ \A i \in 1..Len(results) : results[i].idx = i
       /\ fail_count = Cardinality({i \in 1..Len(results) : results[i].r # "ok"})

\* C2: a failed resolve or a failed page fetch ends the run with exit status
\* 1 with no extraction result, no created directory and no download, and
\* exit status 1 comes from these two failures only.
C2_FatalOnlyOnResolveOrFetch ==
    /\ (ResolveFailed \/ FetchFailed) =>
          /\ pc = "exited"
          /\ exit_code = 1
          /\ photo_entries_found = <<>>
          /\ ~made_dir
          /\ results = <<>>
    /\ exit_code = 1 => (ResolveFailed \/ FetchFailed)

\* C3: when the page fetch succeeded and extraction of the body yields no
\* Photo Entry, the run ends with exit status 0 after the warning and without
\* a download.
C3_ZeroEntriesExitsZero ==
    ( /\ pc = "exited"
      /\ fetch_status = "ok"
      /\ ExpectedEntries(query_script(album)) = <<>> )
    => /\ exit_code = 0
       /\ Printed("No photos found in album.")
       /\ results = <<>>

\* C4: extraction raises no error whatever a block's payload parses to, and
\* the entries of the other blocks are accumulated.
C4_ExtractionNeverRaises ==
    /\ raised # "parse"
    /\ (pc \in {"download", "exited"} /\ fetch_status = "ok" /\ album # <<>>)
          => photo_entries_found = ExpectedEntries(script_tags)

PlainIds(entries) ==
    \A i \in 1..Len(entries) :
        /\ entries[i].pid.t = "str"
        /\ \E k \in 1..Len(entries[i].pid.s) : entries[i].pid.s[k] # DOT

C8_OrderPreservingFilter ==
    /\ script_idx <= Len(script_tags) + 1
    /\ photo_entries_found
           = ExpectedEntries(SubSeq(script_tags, 1, script_idx - 1))
    /\ \A i \in 1..Len(photo_entries_found) :
           Contains(photo_entries_found[i].url, HOST)

C8_Witness ==
    /\ pc = "parse"
    /\ script_idx = Len(script_tags) + 1
    /\ Len(photo_entries_found) = 2
    /\ \E k \in 1..Len(script_tags) :
          \E r \in 1..Len(PhotoRecords(script_tags[k])) :
              /\ PhotoRecords(script_tags[k])[r].t = "list"
              /\ ~ValidRecord(PhotoRecords(script_tags[k])[r])

ScenarioExtracted ==
    /\ album = ScenarioPage
    /\ pc = "parse"
    /\ script_idx = 2

C10_OtherItemsUntouched ==
    [][FailedDownload =>
          \A j \in 1..Len(to_download) :
              j # dl_idx => \A n \in FilesOf(to_download[j]) : SameFile(n)]_vars

\* C10 amended: a failed download of item i leaves the files of every item j
\* whose stable id reads differently from that of item i as they were.
C10_OtherIdsUntouched ==
    [][FailedDownload =>
          \A j \in 1..Len(to_download) :
              Str(to_download[j].pid) # Str(to_download[dl_idx].pid)
                  => \A n \in FilesOf(to_download[j]) : SameFile(n)]_vars

C10_Witness ==
    /\ Len(results) = 2
    /\ results[1].r = "ok"
    /\ results[2].cause = "stream_error"
    /\ Str(to_download[1].pid) # Str(to_download[2].pid)
    /\ \E n \in FilesOf(to_download[1]) :
          n \in DOMAIN fs /\ fs[n].whole /\ fs[n].src = to_download[1].url
    /\ \E n \in FilesOf(to_download[2]) :
          n \in DOMAIN fs /\ ~fs[n].whole

====
